---- MODULE Spec2Model ----
(***************************************************************************)
(* Model of the study back end: the request handlers that run against one  *)
(* DynamoDB table (participant assignment, capacity counters, stage and    *)
(* completion flags, clip annotations).  Every store call of a handler is  *)
(* one step, so that independent invocations interleave between calls.     *)
(*                                                                         *)
(* The repository holds two generations of the assign handler:             *)
(*   "current": sorted least-loaded choice, unconditional SET of the count *)
(*   "legacy" : config-order loop, guarded increment                       *)
(* and two of mark-finished.  Their key schemes are disjoint, so a         *)
(* deployment runs one generation; `deployed` records which.               *)
(*                                                                         *)
(* Beside the table, the model holds one process's cached study            *)
(* configuration (`proc`) and the clip navigation of one browser session   *)
(* (`ui`).                                                                 *)
(***************************************************************************)
EXTENDS Integers, Sequences, FiniteSets, TLC

\* ---------------------------------------------------------------- bounds
MaxReq == 3            \* request slots (invocations) per behaviour
NumParticipants == 3   \* participant identifiers 1..NumParticipants
MaxCap == 2            \* largest seeded max_assignments in Init
MaxSeqReq == 10        \* invocations of a one-at-a-time behaviour
MaxProgressReq == 2    \* request slots of the participant-journey behaviours
MaxListLen == 2        \* longest participantFindings list of a request body
MaxStoreReq == 2       \* request slots of the behaviours with store failures
MaxStatusReq == 3      \* request slots of the status behaviour
MaxClipIndex == 3      \* largest clipIndex of a stored or submitted annotation
MaxConfigReq == 3      \* invocations handled by the one process of the config behaviour
MaxClips == 3          \* most clips of a story configuration

\* ------------------------------------------------------- program values
NoStage == 0 - 1       \* participant item without a stage attribute
MaxStage == 3          \* stage handler accepts 0..3
PrestudyStage == 1     \* prestudy: ":stage": { N: "1" }
FinishedStage == 3     \* poststudy / mark-finished: ":stage": { N: "3" }

Participants == 1..NumParticipants
Blank == 0             \* a missing or empty participantId
Spaces == 0 - 2        \* a participantId of white space only
Reqs == 1..MaxReq
ProgressReqs == 1..MaxProgressReq
SeqReqs == 1..MaxSeqReq
StoreReqs == 1..MaxStoreReq

\* (body.participantId || "").trim()
TrimId(raw) == IF raw = Spaces THEN Blank ELSE raw

VARIABLES
  deployed,   \* "current" | "legacy": generation of the deployed handlers
  cfg,        \* study_config.json: [stories: Seq(STRING), modes: Seq(STRING)]
  cap,        \* capacity items: [<<story, mode>> -> [count, max]]
  items,      \* participant items: set of [sk, story, mode, stage, finished]
  reqs,       \* invocations: [Reqs -> request record]
  surveys,    \* prestudy / poststudy items: set of [p, kind, answers]
  clips,      \* clip annotation items: set of [p, story, clip, ai, findings, cross, watched]
  inbox,      \* a request body (clipAnnotation, presign) on its way to the handler
  reached,    \* history: capacity keys whose count has been >= max
  proc,       \* one process: the stored study_config.json, cachedConfig, history
  ui          \* the task view of one browser session (App / TaskView state)

vars == <<deployed, cfg, cap, items, surveys, clips, inbox, reqs, reached, proc, ui>>

\* ------------------------------------------------------------- helpers
\* String.prototype.localeCompare on the identifiers used here
Rank(s) ==
  CASE s = "A" -> 1
    [] s = "B" -> 2
    [] s = "human" -> 1
    [] s = "vlm" -> 2
    [] OTHER -> 0

\* for (const storyId of STORY_IDS) for (const mode of MODES)
CandAt(c, i) ==
  LET nm == Len(c.modes)
  IN  <<c.stories[((i - 1) \div nm) + 1], c.modes[((i - 1) % nm) + 1]>>

NumCands(c) == Len(c.stories) * Len(c.modes)

CandKeys(c) == { CandAt(c, i) : i \in 1..NumCands(c) }

\* GetItemCommand on the participant key
HasItem(p) == \E it \in items : it.sk = p
GetItem(p) == CHOOSE it \in items : it.sk = p

\* UpdateItemCommand on the participant key (creates the item when absent)
BlankItem(p) == [sk |-> p, story |-> "", mode |-> "", stage |-> NoStage, finished |-> FALSE]
ItemOrBlank(p) == IF HasItem(p) THEN GetItem(p) ELSE BlankItem(p)
UpdateItem(p, new) == { it \in items : it.sk # p } \cup { new }

\* an idle slot and a finished invocation
NoUrl == <<>>
NoResp == [status |-> 0, error |-> "", story |-> "", mode |-> "", reused |-> FALSE,
           stage |-> NoStage, savedAi |-> 0, savedFindings |-> 0, url |-> NoUrl,
           finished |-> FALSE, resume |-> 0]
NoBody == <<>>
IdleReq == [kind |-> "idle", p |-> 0, pc |-> "idle", idx |-> 0, recs |-> <<>>,
            chosen |-> <<>>, arg |-> 0, writes |-> 0, conflict |-> FALSE,
            pred |-> {}, slot |-> <<>>, tried |-> <<>>, fault |-> FALSE,
            malformed |-> FALSE, resp |-> NoResp]

Done(r) == reqs[r].pc = "done"

\* respond(statusCode, body): the invocation ends and its locals are gone
Respond(rq, st, story, mode, reused, stage) ==
  [rq EXCEPT !.pc = "done", !.idx = 0, !.recs = <<>>, !.chosen = <<>>,
             !.resp = [NoResp EXCEPT !.status = st, !.story = story, !.mode = mode,
                                     !.reused = reused, !.stage = stage]]

RespondError(rq, st, msg) ==
  [rq EXCEPT !.pc = "done", !.idx = 0, !.recs = <<>>, !.chosen = <<>>,
             !.resp = [NoResp EXCEPT !.status = st, !.error = msg]]

\* history: the one capacity key still under its maximum, when there is
\* exactly one free place left in the whole study
LastSlot ==
  LET open == { k \in DOMAIN cap : cap[k].count < cap[k].max } IN
  IF Cardinality(open) = 1 /\ (\A k \in open : cap[k].count = cap[k].max - 1)
  THEN CHOOSE k \in open : TRUE
  ELSE <<>>

\* Slots are taken in order, and a participant identifier not seen before
\* is the next unused number: participants are interchangeable, so every
\* behaviour is covered up to renaming.  `pred` remembers the invocations
\* that had already answered when this one was issued.
CanStart(r, p) ==
  /\ reqs[r].pc = "idle"
  /\ \A q \in DOMAIN reqs : q < r => reqs[q].pc # "idle"
  /\ \A n \in 1..(p - 1) : \E q \in DOMAIN reqs : reqs[q].p = n

NewReq(kind, p, pc, arg) ==
  [IdleReq EXCEPT !.kind = kind, !.p = p, !.pc = pc, !.arg = arg,
                  !.idx = 1, !.pred = { q \in DOMAIN reqs : reqs[q].pc = "done" },
                  !.slot = LastSlot]

\* ------------------------------------------------------ study config
\* let cachedConfig = null: a process that has loaded nothing yet, with
\* the document `doc` stored as study_config.json.  History: `fetches`
\* counts the GetObject calls sent, `stale` the invocations served from
\* cachedConfig while another document was stored.
ColdStart(doc) ==
  [object |-> doc, cached |-> [set |-> FALSE, doc |-> doc], fetches |-> 0, stale |-> 0]

\* variant: the stored document is fetched on every call
GetStudyConfig_NoCache(pr, ok) ==
  IF ok
  THEN [pr EXCEPT !.fetches = pr.fetches + 1,
                  !.cached = [set |-> TRUE, doc |-> pr.object]]
  ELSE [pr EXCEPT !.fetches = pr.fetches + 1]

\* getStudyConfig(): cachedConfig when set; else GetObject and JSON.parse,
\* which set cachedConfig when both succeed (ok) and throw otherwise
GetStudyConfig(pr, ok) ==
  IF pr.cached.set
  THEN [pr EXCEPT !.stale = IF pr.object # pr.cached.doc THEN pr.stale + 1 ELSE pr.stale]
  ELSE IF ok
  THEN [pr EXCEPT !.fetches = pr.fetches + 1,
                  !.cached = [set |-> TRUE, doc |-> pr.object]]
  ELSE [pr EXCEPT !.fetches = pr.fetches + 1]

\* ----------------------------------------------------------- task view
\* The state of App after handleStart: IS_TEST_MODE, storyConfig.clips.length,
\* currentClipIndex (0-based), clipCompletion (the indexes marked true),
\* loading, and the index whose presigned URL loadClipByIndex is awaiting
\* (NoClip when none).  History: `alerted`, a Next click was refused.
NoClip == 0 - 1

TaskStart(test, n) ==
  [test |-> test, clips |-> n, index |-> 0, completion |-> {}, loading |-> FALSE,
   pending |-> NoClip, alerted |-> FALSE]

\* variant: Next is locked only until some clip has been completed
NextLocked_AnyCompleted(u) == ~u.test /\ u.completion = {}

\* !isTestMode && !clipCompletion[currentClipIndex]
NextLocked(u) == ~u.test /\ u.index \notin u.completion

\* disabled={!storyConfig || currentClipIndex >= storyConfig.clips.length - 1 || loading}
NextDisabled(u) == u.index >= u.clips - 1 \/ u.loading

\* disabled={currentClipIndex === 0 || loading}
PrevDisabled(u) == u.index = 0 \/ u.loading

\* handleNextClip up to its await: setLoading(true), loadClipByIndex(next)
HandleNextClip(u) ==
  IF NextLocked(u) THEN u
  ELSE IF u.index + 1 >= u.clips THEN u
  ELSE [u EXCEPT !.loading = TRUE, !.pending = u.index + 1]

\* handlePrevClip up to its await
HandlePrevClip(u) ==
  IF u.index - 1 < 0 THEN u
  ELSE [u EXCEPT !.loading = TRUE, !.pending = u.index - 1]

\* onClick of "Next clip": alert when blocked, else handleNextClip()
ClickNext ==
  /\ ~NextDisabled(ui)
  /\ ui' = IF NextLocked(ui) THEN [ui EXCEPT !.alerted = TRUE] ELSE HandleNextClip(ui)
  /\ UNCHANGED <<surveys, clips, inbox, deployed, cfg, cap, items, reqs, reached, proc>>

\* onClick of "Previous clip"
ClickPrev ==
  /\ ~PrevDisabled(ui)
  /\ ui' = HandlePrevClip(ui)
  /\ UNCHANGED <<surveys, clips, inbox, deployed, cfg, cap, items, reqs, reached, proc>>

\* presignGet resolved: setVideoUrl(url), setCurrentClipIndex(idx), and
\* the finally block's setLoading(false)
LoadClipDone ==
  /\ ui.pending # NoClip
  /\ ui' = [ui EXCEPT !.index = ui.pending, !.pending = NoClip, !.loading = FALSE]
  /\ UNCHANGED <<surveys, clips, inbox, deployed, cfg, cap, items, reqs, reached, proc>>

\* presignGet threw: setError, setLoading(false), the clip stays
LoadClipFail ==
  /\ ui.pending # NoClip
  /\ ui' = [ui EXCEPT !.pending = NoClip, !.loading = FALSE]
  /\ UNCHANGED <<surveys, clips, inbox, deployed, cfg, cap, items, reqs, reached, proc>>

\* onEnded of the mounted video: clipCompletion[currentClipIndex] = true
VideoEnded ==
  /\ ui' = [ui EXCEPT !.completion = ui.completion \cup {ui.index}]
  /\ UNCHANGED <<surveys, clips, inbox, deployed, cfg, cap, items, reqs, reached, proc>>

\* ------------------------------------------------- assign (current)
\* sorted = storyRecords.slice().sort(cmp)
Before(a, b) ==
  IF a.count # b.count THEN a.count < b.count
  ELSE IF a.story # b.story THEN Rank(a.story) < Rank(b.story)
  ELSE Rank(a.mode) < Rank(b.mode)

RECURSIVE InsertSorted(_, _)
InsertSorted(x, s) ==
  IF s = <<>> THEN <<x>>
  ELSE IF Before(x, Head(s)) THEN <<x>> \o s
  ELSE <<Head(s)>> \o InsertSorted(x, Tail(s))

RECURSIVE SortRecords(_)
SortRecords(s) ==
  IF s = <<>> THEN <<>> ELSE InsertSorted(Head(s), SortRecords(Tail(s)))

\* variant: a record at its maximum still counts as available
Available_AtMax(s) == SelectSeq(s, LAMBDA rec : rec.count <= rec.max)

\* available = sorted.filter((r) => r.assignedCount < r.maxAssignments)
Available(s) == SelectSeq(s, LAMBDA rec : rec.count < rec.max)

\* variant: the least-loaded record whether or not it has room
Chosen_IgnoreMax(recs) == SortRecords(recs)[1]

\* chosen = available.length > 0 ? available[0] : sorted[0]
Chosen(recs) ==
  LET sorted == SortRecords(recs)
      available == Available(sorted)
  IN  IF Len(available) > 0 THEN available[1] ELSE sorted[1]

Reached(c) == reached \cup { k \in DOMAIN c : c[k].count >= c[k].max }

AssignStart(r, p) ==
  /\ deployed = "current"
  /\ CanStart(r, p)
  /\ reqs' = [reqs EXCEPT ![r] =
                IF TrimId(p) = Blank
                THEN RespondError(NewReq("assign", TrimId(p), "get", 0), 400,
                                  "participantId is required")
                ELSE NewReq("assign", TrimId(p), "get", 0)]
  /\ UNCHANGED <<ui, proc, surveys, clips, inbox, deployed, cfg, cap, items, reached>>

\* variant: the fast path taken only for a finished participant
WellFormed_OnlyFinished(it) == it.story # "" /\ it.mode # "" /\ it.finished

\* if (existingStoryId && existingMode)
WellFormed(it) == it.story # "" /\ it.mode # ""

\* variant: the stored assignment is not looked at
AssignGet_NoFastPath(r) ==
  LET rq == reqs[r] IN
  /\ rq.kind = "assign" /\ rq.pc = "get"
  /\ reqs' = [reqs EXCEPT ![r].pc = "read"]
  /\ UNCHANGED <<ui, proc, surveys, clips, inbox, deployed, cfg, cap, items, reached>>

\* 1) existing assignment?
AssignGet(r) ==
  LET rq == reqs[r] IN
  /\ rq.kind = "assign" /\ rq.pc = "get"
  /\ IF HasItem(rq.p) /\ WellFormed(GetItem(rq.p))
     THEN LET it == GetItem(rq.p) IN
          reqs' = [reqs EXCEPT ![r] =
                     Respond(rq, 200, it.story, it.mode, TRUE,
                             IF it.stage = NoStage THEN 0 ELSE it.stage)]
     ELSE \* "existing participant record missing fields, reallocating"
          reqs' = [reqs EXCEPT ![r].pc = "read", ![r].malformed = HasItem(rq.p)]
  /\ UNCHANGED <<ui, proc, surveys, clips, inbox, deployed, cfg, cap, items, reached>>

\* 2) load one story+mode item per step
AssignRead(r) ==
  LET rq == reqs[r]
      k == CandAt(cfg, rq.idx)
      recs == IF k \in DOMAIN cap
              THEN Append(rq.recs, [story |-> k[1], mode |-> k[2],
                                    count |-> cap[k].count, max |-> cap[k].max])
              ELSE rq.recs
  IN
  /\ rq.kind = "assign" /\ rq.pc = "read"
  /\ IF rq.idx < NumCands(cfg)
     THEN reqs' = [reqs EXCEPT ![r].recs = recs, ![r].idx = rq.idx + 1]
     ELSE IF recs = <<>>
     THEN reqs' = [reqs EXCEPT ![r] =
                     RespondError(rq, 409, "No story assignment items found")]
     ELSE reqs' = [reqs EXCEPT ![r].recs = recs, ![r].pc = "update"]
  /\ UNCHANGED <<ui, proc, surveys, clips, inbox, deployed, cfg, cap, items, reached>>

\* SET assigned_count = :newCount, ConditionExpression attribute_exists(pk)
AssignUpdate(r) ==
  LET rq == reqs[r]
      chosen == Chosen(rq.recs)
      k == <<chosen.story, chosen.mode>>
  IN
  /\ rq.kind = "assign" /\ rq.pc = "update"
  /\ k \in DOMAIN cap
  /\ cap' = [cap EXCEPT ![k].count = chosen.count + 1]
  /\ reached' = Reached(cap')
  /\ reqs' = [reqs EXCEPT ![r].pc = "put", ![r].chosen = k,
                          ![r].writes = rq.writes + 1,
                          ![r].tried = Append(rq.tried, chosen)]
  /\ UNCHANGED <<ui, proc, surveys, clips, inbox, deployed, cfg, items>>

\* variant: PutItem without its ConditionExpression
AssignPut_Unconditional(r) ==
  LET rq == reqs[r] IN
  /\ rq.kind = "assign" /\ rq.pc = "put"
  /\ items' = UpdateItem(rq.p, [sk |-> rq.p, story |-> rq.chosen[1],
                                mode |-> rq.chosen[2], stage |-> 0, finished |-> FALSE])
  /\ reqs' = [reqs EXCEPT ![r] =
                Respond(rq, 200, rq.chosen[1], rq.chosen[2], FALSE, 0)]
  /\ UNCHANGED <<ui, proc, surveys, clips, inbox, deployed, cfg, cap, reached>>

\* PutItem with attribute_not_exists(sk); a failed condition ends in 409
AssignPut(r) ==
  LET rq == reqs[r] IN
  /\ rq.kind = "assign" /\ rq.pc = "put"
  /\ IF ~HasItem(rq.p)
     THEN /\ items' = items \cup
                {[sk |-> rq.p, story |-> rq.chosen[1], mode |-> rq.chosen[2],
                  stage |-> 0, finished |-> FALSE]}
          /\ reqs' = [reqs EXCEPT ![r] =
                        Respond(rq, 200, rq.chosen[1], rq.chosen[2], FALSE, 0)]
     ELSE /\ items' = items
          /\ reqs' = [reqs EXCEPT ![r] =
                        RespondError([rq EXCEPT !.conflict = TRUE], 409,
                                     "No available tasks for this study")]
  /\ UNCHANGED <<ui, proc, surveys, clips, inbox, deployed, cfg, cap, reached>>

\* ------------------------------------------------- assign (legacy)
LegacyStart(r, p) ==
  /\ deployed = "legacy"
  /\ CanStart(r, p)
  /\ reqs' = [reqs EXCEPT ![r] =
                IF p = Blank
                THEN RespondError(NewReq("assignLegacy", p, "get", 0), 400,
                                  "participantId is required")
                ELSE NewReq("assignLegacy", p, "get", 0)]
  /\ UNCHANGED <<ui, proc, surveys, clips, inbox, deployed, cfg, cap, items, reached>>

\* 1) existing assignment?  existing.Item.story_id.S throws on an item
\* without story_id, which the outer catch answers with 500
LegacyGet(r) ==
  LET rq == reqs[r] IN
  /\ rq.kind = "assignLegacy" /\ rq.pc = "get"
  /\ IF HasItem(rq.p)
     THEN LET it == GetItem(rq.p) IN
          IF it.story # "" /\ it.mode # ""
          THEN reqs' = [reqs EXCEPT ![r] =
                          Respond(rq, 200, it.story, it.mode, TRUE, NoStage)]
          ELSE reqs' = [reqs EXCEPT ![r] =
                          RespondError(rq, 500, "Internal server error")]
     ELSE reqs' = [reqs EXCEPT ![r].pc = "update"]
  /\ UNCHANGED <<ui, proc, surveys, clips, inbox, deployed, cfg, cap, items, reached>>

\* continue: the next story+mode of the loop, or 409 after the last one
LegacyContinue(rq) ==
  IF rq.idx < NumCands(cfg)
  THEN [rq EXCEPT !.idx = rq.idx + 1, !.pc = "update"]
  ELSE RespondError(rq, 409, "No available tasks for this study")

\* history: the story+mode item an UpdateItem is sent for, with the count
\* stored at that moment (0 when the item is missing)
Attempt(k) ==
  [story |-> k[1], mode |-> k[2],
   count |-> IF k \in DOMAIN cap THEN cap[k].count ELSE 0,
   max |-> IF k \in DOMAIN cap THEN cap[k].max ELSE 0]

\* SET assigned_count = assigned_count + :inc, guarded by
\* assigned_count < max_assignments
LegacyUpdate(r) ==
  LET rq == reqs[r]
      k == CandAt(cfg, rq.idx)
  IN
  /\ rq.kind = "assignLegacy" /\ rq.pc = "update"
  /\ IF k \in DOMAIN cap /\ cap[k].count < cap[k].max
     THEN /\ cap' = [cap EXCEPT ![k].count = cap[k].count + 1]
          /\ reqs' = [reqs EXCEPT ![r].pc = "put", ![r].chosen = k,
                                  ![r].writes = rq.writes + 1,
                                  ![r].tried = Append(rq.tried, Attempt(k))]
     ELSE /\ cap' = cap
          /\ reqs' = [reqs EXCEPT ![r] =
                        LegacyContinue([rq EXCEPT !.tried = Append(rq.tried, Attempt(k))])]
  /\ reached' = Reached(cap')
  /\ UNCHANGED <<ui, proc, surveys, clips, inbox, deployed, cfg, items>>

\* PutItem with attribute_not_exists(sk); any error continues the loop
LegacyPut(r) ==
  LET rq == reqs[r] IN
  /\ rq.kind = "assignLegacy" /\ rq.pc = "put"
  /\ IF ~HasItem(rq.p)
     THEN /\ items' = items \cup
                {[sk |-> rq.p, story |-> rq.chosen[1], mode |-> rq.chosen[2],
                  stage |-> NoStage, finished |-> FALSE]}
          /\ reqs' = [reqs EXCEPT ![r] =
                        Respond(rq, 200, rq.chosen[1], rq.chosen[2], FALSE, NoStage)]
     ELSE /\ items' = items
          /\ reqs' = [reqs EXCEPT ![r] =
                        LegacyContinue([rq EXCEPT !.conflict = TRUE])]
  /\ UNCHANGED <<ui, proc, surveys, clips, inbox, deployed, cfg, cap, reached>>

\* ------------------------------------------------ store failures
\* A ddb.send that throws an error other than
\* ConditionalCheckFailedException (store unreachable, throttled, ...);
\* the call is taken not to have been applied.

\* GetItem of the participant item throws: outer catch
AssignGetFault(r) ==
  LET rq == reqs[r] IN
  /\ rq.kind = "assign" /\ rq.pc = "get"
  /\ reqs' = [reqs EXCEPT ![r] =
                RespondError([rq EXCEPT !.fault = TRUE], 500, "Internal server error")]
  /\ UNCHANGED <<ui, proc, surveys, clips, inbox, deployed, cfg, cap, items, reached>>

\* a GetItem of a story+mode item throws: lastError = err, the record is
\* not pushed and the loop goes on
AssignReadFault(r) ==
  LET rq == reqs[r] IN
  /\ rq.kind = "assign" /\ rq.pc = "read"
  /\ IF rq.idx < NumCands(cfg)
     THEN reqs' = [reqs EXCEPT ![r].idx = rq.idx + 1, ![r].fault = TRUE]
     ELSE IF rq.recs = <<>>
     THEN reqs' = [reqs EXCEPT ![r] =
                     RespondError([rq EXCEPT !.fault = TRUE], 409,
                                  "No story assignment items found")]
     ELSE reqs' = [reqs EXCEPT ![r].pc = "update", ![r].fault = TRUE]
  /\ UNCHANGED <<ui, proc, surveys, clips, inbox, deployed, cfg, cap, items, reached>>

\* UpdateItem or PutItem throws: lastError.name is not
\* ConditionalCheckFailedException
AssignWriteFault(r) ==
  LET rq == reqs[r] IN
  /\ rq.kind = "assign" /\ rq.pc \in {"update", "put"}
  /\ reqs' = [reqs EXCEPT ![r] =
                RespondError([rq EXCEPT !.fault = TRUE], 500, "Assignment failed")]
  /\ UNCHANGED <<ui, proc, surveys, clips, inbox, deployed, cfg, cap, items, reached>>

\* GetItem of the participant item throws: outer catch
LegacyGetFault(r) ==
  LET rq == reqs[r] IN
  /\ rq.kind = "assignLegacy" /\ rq.pc = "get"
  /\ reqs' = [reqs EXCEPT ![r] =
                RespondError([rq EXCEPT !.fault = TRUE], 500, "Internal server error")]
  /\ UNCHANGED <<ui, proc, surveys, clips, inbox, deployed, cfg, cap, items, reached>>

\* UpdateItem or PutItem throws: console.error, continue
LegacyWriteFault(r) ==
  LET rq == reqs[r] IN
  /\ rq.kind = "assignLegacy" /\ rq.pc \in {"update", "put"}
  /\ reqs' = [reqs EXCEPT ![r] =
                LegacyContinue([rq EXCEPT !.fault = TRUE,
                   !.tried = IF rq.pc = "update"
                             THEN Append(rq.tried, Attempt(CandAt(cfg, rq.idx)))
                             ELSE rq.tried])]
  /\ UNCHANGED <<ui, proc, surveys, clips, inbox, deployed, cfg, cap, items, reached>>

\* ------------------------------------------------------- JSON values
\* A JSON value in a score position, with numbers in half units so that
\* 1.5 is 3:  t = "undef" (field missing), "null", "num" (number v/2),
\* "numstr" (string spelling the number v/2), "empty" (""), "text".
RawVal(t, v) == [t |-> t, v |-> v]

\* Number(raw): NaN for a missing field and for text, 0 for null and ""
ToNumber(raw) ==
  CASE raw.t = "undef" -> [nan |-> TRUE, v |-> 0]
    [] raw.t = "text" -> [nan |-> TRUE, v |-> 0]
    [] raw.t = "null" -> [nan |-> FALSE, v |-> 0]
    [] raw.t = "empty" -> [nan |-> FALSE, v |-> 0]
    [] OTHER -> [nan |-> FALSE, v |-> raw.v]

LikertMin == 0 - 3
LikertMax == 3

\* String(v || "").trim()
Trim(str) == IF str = " " THEN "" ELSE IF str = " none " THEN "none" ELSE str

RECURSIVE TrimAll(_)
TrimAll(list) == IF list = <<>> THEN <<>> ELSE <<Trim(Head(list))>> \o TrimAll(Tail(list))

\* stringList(raw): trimmed, non-empty strings
StringList(list) == SelectSeq(TrimAll(list), LAMBDA v : v # "")

Includes(list, v) == \E i \in 1..Len(list) : list[i] = v

\* ------------------------------------------------ generative-AI usage
\* A tool of body.genAiUsage.tools is [str, s]: str is FALSE for a value
\* that is not a string; LongTool stands for a string of 81 characters.
LongTool == "t81"
MaxToolLength == 80
MaxTools == 30

ToolLength(str) == IF str = LongTool THEN MaxToolLength + 1 ELSE IF str = "" THEN 0 ELSE 1

\* .filter((t) => typeof t === "string").map((t) => t.trim())
\*   .filter((t) => t.length > 0 && t.length <= 80)
RECURSIVE CleanTools(_)
CleanTools(list) ==
  IF list = <<>> THEN <<>>
  ELSE LET t == Head(list)
           str == Trim(t.s)
       IN  (IF t.str /\ ToolLength(str) > 0 /\ ToolLength(str) <= MaxToolLength
            THEN <<str>> ELSE <<>>) \o CleanTools(Tail(list))

\* Array.from(new Set(list)): the first occurrence of each value, in order
RECURSIVE Dedupe(_)
Dedupe(list) ==
  IF list = <<>> THEN <<>>
  ELSE LET rest == Dedupe(SubSeq(list, 1, Len(list) - 1))
           last == list[Len(list)]
       IN  IF Includes(rest, last) THEN rest ELSE Append(rest, last)

\* .slice(0, n)
Slice(list, n) == SubSeq(list, 1, IF Len(list) < n THEN Len(list) ELSE n)

\* a genai_usage attribute that is not written
NullUsage ==
  [stored |-> FALSE, tools |-> <<>>, frequency |-> "", used_any |-> FALSE, other_text |-> ""]

\* body.genAiUsage missing
NoUsageField ==
  [object |-> FALSE, tools |-> <<>>, frequency |-> [str |-> FALSE, s |-> ""],
   otherText |-> [str |-> FALSE, s |-> ""]]

\* normalizeGenAiUsage(raw)
NormalizeGenAiUsage(raw) ==
  LET tools == Slice(Dedupe(CleanTools(raw.tools)), MaxTools)
      frequency == IF raw.frequency.str THEN Trim(raw.frequency.s) ELSE ""
      otherText == IF raw.otherText.str THEN Trim(raw.otherText.s) ELSE ""
      cleanedTools == IF Includes(tools, "none") THEN <<"none">> ELSE tools
      usedAny == Len(cleanedTools) > 0 /\ ~Includes(cleanedTools, "none")
  IN  IF ~raw.object THEN NullUsage
      ELSE IF Len(tools) = 0 \/ frequency = "" THEN NullUsage
      ELSE [stored |-> TRUE, tools |-> cleanedTools, frequency |-> frequency,
            used_any |-> usedAny,
            other_text |-> IF Includes(cleanedTools, "other") THEN otherText ELSE ""]

\* ------------------------------------------- prestudy / poststudy
\* normalizeAnswer(raw, idx): null for a falsy entry or a score that is
\* not a finite number within -3..3
AnswerOk(ans) ==
  /\ ans.present
  /\ ~ToNumber(ans.score).nan
  /\ ToNumber(ans.score).v >= 2 * LikertMin
  /\ ToNumber(ans.score).v <= 2 * LikertMax

NormalizeAnswer(ans, idx) ==
  [question_id |-> IF ans.id # "" THEN ans.id ELSE "q", index |-> idx,
   score |-> ToNumber(ans.score).v]

RECURSIVE NormalizeAnswersFrom(_, _)
NormalizeAnswersFrom(answers, idx) ==
  IF idx > Len(answers) THEN <<>>
  ELSE (IF AnswerOk(answers[idx])
        THEN <<NormalizeAnswer(answers[idx], idx)>> ELSE <<>>)
       \o NormalizeAnswersFrom(answers, idx + 1)

\* answers.map(normalizeAnswer).filter(Boolean)
NormalizeAnswers(answers) == NormalizeAnswersFrom(answers, 1)

\* if (genAiUsage) item.genai_usage = genAiUsage; PutItemCommand
PutSurvey(p, kind, answers, usage) ==
  { sv \in surveys : ~(sv.p = p /\ sv.kind = kind) }
    \cup {[p |-> p, kind |-> kind, answers |-> answers, genai |-> usage]}

\* variant: the survey item is written before the answers are validated
SurveyStart_StoreFirst(r, raw, kind, answers, usage) ==
  LET p == TrimId(raw)
      rq == NewReq(kind, p, "stage", 0)
      normalized == NormalizeAnswers(answers)
  IN
  /\ deployed = "current"
  /\ CanStart(r, raw)
  /\ IF p = Blank
     THEN /\ reqs' = [reqs EXCEPT ![r] =
                        RespondError(rq, 400, "participantId is required")]
          /\ surveys' = surveys
     ELSE IF Len(normalized) = 0
     THEN /\ reqs' = [reqs EXCEPT ![r] =
                        RespondError(rq, 400, "No valid answers provided")]
          /\ surveys' = PutSurvey(p, kind, normalized, usage)
     ELSE /\ reqs' = [reqs EXCEPT ![r] = [rq EXCEPT !.arg = Len(normalized)]]
          /\ surveys' = PutSurvey(p, kind, normalized, usage)
  /\ UNCHANGED <<ui, proc, clips, inbox, deployed, cfg, cap, items, reached>>

\* validation, then PutItem of the survey item
SurveyStart(r, raw, kind, answers, usage) ==
  LET p == TrimId(raw)
      rq == NewReq(kind, p, "stage", 0)
      normalized == NormalizeAnswers(answers)
  IN
  /\ deployed = "current"
  /\ CanStart(r, raw)
  /\ IF p = Blank
     THEN /\ reqs' = [reqs EXCEPT ![r] =
                        RespondError(rq, 400, "participantId is required")]
          /\ surveys' = surveys
     ELSE IF Len(answers) = 0
     THEN /\ reqs' = [reqs EXCEPT ![r] =
                        RespondError(rq, 400, "answers array is required")]
          /\ surveys' = surveys
     ELSE IF Len(normalized) = 0
     THEN /\ reqs' = [reqs EXCEPT ![r] =
                        RespondError(rq, 400, "No valid answers provided")]
          /\ surveys' = surveys
     ELSE /\ reqs' = [reqs EXCEPT ![r] = [rq EXCEPT !.arg = Len(normalized)]]
          /\ surveys' = PutSurvey(p, kind, normalized, usage)
  /\ UNCHANGED <<ui, proc, clips, inbox, deployed, cfg, cap, items, reached>>

\* a prestudy request without genAiUsage
PrestudyStart(r, p, answers) ==
  SurveyStart(r, p, "prestudy", answers, NormalizeGenAiUsage(NoUsageField))

\* a prestudy request whose genAiUsage is the one on its way
PrestudySubmit(r, p, answers) ==
  /\ inbox # NoBody
  /\ SurveyStart(r, p, "prestudy", answers, NormalizeGenAiUsage(inbox.genAiUsage))

\* SET stage = :stage, guarded by attribute_not_exists(stage) OR stage < :stage;
\* a failed condition is swallowed and the answer is stage 1 either way
PrestudyAdvance(r) ==
  LET rq == reqs[r]
      it == ItemOrBlank(rq.p)
  IN
  /\ rq.kind = "prestudy" /\ rq.pc = "stage"
  /\ IF it.stage = NoStage \/ it.stage < PrestudyStage
     THEN items' = UpdateItem(rq.p, [it EXCEPT !.stage = PrestudyStage])
     ELSE items' = items
  /\ reqs' = [reqs EXCEPT ![r] = Respond(rq, 200, "", "", FALSE, PrestudyStage)]
  /\ UNCHANGED <<ui, proc, surveys, clips, inbox, deployed, cfg, cap, reached>>

PoststudyStart(r, p, answers) == SurveyStart(r, p, "poststudy", answers, NullUsage)

\* SET stage = :stage, finished = :f (no condition)
PoststudyFinish(r) ==
  LET rq == reqs[r]
      it == ItemOrBlank(rq.p)
  IN
  /\ rq.kind = "poststudy" /\ rq.pc = "stage"
  /\ items' = UpdateItem(rq.p, [it EXCEPT !.stage = FinishedStage, !.finished = TRUE])
  /\ reqs' = [reqs EXCEPT ![r] = Respond(rq, 200, "", "", FALSE, FinishedStage)]
  /\ UNCHANGED <<ui, proc, surveys, clips, inbox, deployed, cfg, cap, reached>>

\* ------------------------------------------------------------- stage
\* stageVal = Number(body.stage), accepted when finite and within 0..3;
\* SET stage = :s (no condition)
Stage(r, raw, stageVal) ==
  LET p == TrimId(raw)
      rq == NewReq("stage", p, "done", stageVal)
      it == ItemOrBlank(p)
  IN
  /\ deployed = "current"
  /\ CanStart(r, raw)
  /\ IF p = Blank
     THEN /\ reqs' = [reqs EXCEPT ![r] =
                        RespondError(rq, 400, "participantId is required")]
          /\ items' = items
     ELSE IF stageVal < 0 \/ stageVal > MaxStage
     THEN /\ reqs' = [reqs EXCEPT ![r] =
                        RespondError(rq, 400, "stage must be between 0 and 3")]
          /\ items' = items
     ELSE /\ reqs' = [reqs EXCEPT ![r] = Respond(rq, 200, "", "", FALSE, stageVal)]
          /\ items' = UpdateItem(p, [it EXCEPT !.stage = stageVal])
  /\ UNCHANGED <<ui, proc, surveys, clips, inbox, deployed, cfg, cap, reached>>

\* ----------------------------------------------------- mark-finished
\* SET finished = :t, finished_at = :ts, stage = :stage
MarkFinished(r, raw) ==
  LET p == TrimId(raw)
      rq == NewReq("markFinished", p, "done", 0)
      it == ItemOrBlank(p)
  IN
  /\ deployed = "current"
  /\ CanStart(r, raw)
  /\ IF p = Blank
     THEN /\ reqs' = [reqs EXCEPT ![r] =
                        RespondError(rq, 400, "participantId is required")]
          /\ items' = items
     ELSE /\ reqs' = [reqs EXCEPT ![r] = Respond(rq, 200, "", "", FALSE, NoStage)]
          /\ items' = UpdateItem(p, [it EXCEPT !.stage = FinishedStage,
                                               !.finished = TRUE])
  /\ UNCHANGED <<ui, proc, surveys, clips, inbox, deployed, cfg, cap, reached>>

\* the earlier mark-finished: SET finished = :t, finished_at = :ts
MarkFinishedLegacy(r, p) ==
  LET rq == NewReq("markFinishedLegacy", p, "done", 0)
      it == ItemOrBlank(p)
  IN
  /\ deployed = "legacy"
  /\ CanStart(r, p)
  /\ IF p = Blank
     THEN /\ reqs' = [reqs EXCEPT ![r] =
                        RespondError(rq, 400, "participantId is required")]
          /\ items' = items
     ELSE /\ reqs' = [reqs EXCEPT ![r] = Respond(rq, 200, "", "", FALSE, NoStage)]
          /\ items' = UpdateItem(p, [it EXCEPT !.finished = TRUE])
  /\ UNCHANGED <<ui, proc, surveys, clips, inbox, deployed, cfg, cap, reached>>

\* ------------------------------------------------------------ status
\* the saved clip indexes of (participant, story), and the first index
\* from 1 that is not saved; 0 stands for null
SavedClips(p, story) == { c.clip : c \in { d \in clips : d.p = p /\ d.story = story /\ d.clip >= 1 } }

RECURSIVE NextUnsaved(_, _)
NextUnsaved(saved, next) == IF next \in saved THEN NextUnsaved(saved, next + 1) ELSE next

\* variant: resume after the highest saved index
ResumeClipIndex_AfterLast(p, story) ==
  IF story = "" \/ SavedClips(p, story) = {} THEN 0
  ELSE 1 + CHOOSE c \in SavedClips(p, story) : \A d \in SavedClips(p, story) : d <= c

ResumeClipIndex(p, story) ==
  IF story = "" \/ SavedClips(p, story) = {} THEN 0
  ELSE NextUnsaved(SavedClips(p, story), 1)

\* reads only: participant item, survey items, clip annotation items
Status(r, raw) ==
  LET p == TrimId(raw)
      rq == NewReq("status", p, "done", 0)
      it == ItemOrBlank(p)
  IN
  /\ deployed = "current"
  /\ CanStart(r, raw)
  /\ reqs' = [reqs EXCEPT ![r] =
       IF p = Blank
       THEN RespondError(rq, 400, "participantId is required")
       ELSE [rq EXCEPT !.resp = [NoResp EXCEPT
               !.status = 200,
               !.stage = IF it.stage = NoStage THEN 0 ELSE it.stage,
               !.finished = it.finished,
               !.story = it.story, !.mode = it.mode,
               !.resume = ResumeClipIndex(p, it.story)]]]
  /\ UNCHANGED <<ui, proc, surveys, clips, inbox, deployed, cfg, cap, items, reached>>

\* ---------------------------------------------------- clip annotation
\* normalizeLikert(raw): null unless Number(raw) is finite and within -3..3
LikertOk(raw) ==
  /\ ~ToNumber(raw).nan
  /\ ToNumber(raw).v >= 2 * LikertMin
  /\ ToNumber(raw).v <= 2 * LikertMax

\* normalizeAiResponse(raw) returns an entry
AiOk(raw) ==
  /\ raw.present /\ raw.det_id # ""
  /\ LikertOk(raw.threat) /\ LikertOk(raw.share)
  /\ LikertOk(raw.comfort) /\ LikertOk(raw.trust)

NormalizeAiResponse(raw) ==
  [det_id |-> raw.det_id, threat |-> ToNumber(raw.threat).v,
   share |-> ToNumber(raw.share).v, comfort |-> ToNumber(raw.comfort).v,
   trust |-> ToNumber(raw.trust).v]

\* normalizeFinding(raw) returns an entry
FindingOk(raw) ==
  /\ raw.present /\ raw.finding_id # ""
  /\ Len(StringList(raw.categories)) > 0
  /\ LikertOk(raw.threat) /\ LikertOk(raw.share) /\ LikertOk(raw.comfort)
  /\ (Includes(StringList(raw.categories), "none") \/ Trim(raw.description) # "")

NormalizeFinding(raw) ==
  [finding_id |-> raw.finding_id, categories |-> StringList(raw.categories),
   threat |-> ToNumber(raw.threat).v, share |-> ToNumber(raw.share).v,
   comfort |-> ToNumber(raw.comfort).v, description |-> Trim(raw.description)]

\* normalizeCrossResponse(raw, idx) returns an entry; threat_id defaults
\* to cross_<idx + 1>
CrossOk(raw) ==
  /\ raw.present
  /\ LikertOk(raw.threat) /\ LikertOk(raw.severe) /\ LikertOk(raw.comfort)

NormalizeCrossResponse(raw, idx) ==
  [threat_id |-> IF raw.threat_id # "" THEN raw.threat_id ELSE "cross",
   index |-> IF raw.threat_id # "" THEN 0 ELSE idx,
   threat |-> ToNumber(raw.threat).v, severe |-> ToNumber(raw.severe).v,
   comfort |-> ToNumber(raw.comfort).v]

\* raw.map(normalize...).filter(Boolean)
RECURSIVE NormalizeAiFrom(_, _)
NormalizeAiFrom(list, idx) ==
  IF idx > Len(list) THEN <<>>
  ELSE (IF AiOk(list[idx]) THEN <<NormalizeAiResponse(list[idx])>> ELSE <<>>)
       \o NormalizeAiFrom(list, idx + 1)

\* variant: the first malformed finding ends the list
RECURSIVE NormalizeFindings_StopAtBad(_, _)
NormalizeFindings_StopAtBad(list, idx) ==
  IF idx > Len(list) \/ ~FindingOk(list[idx]) THEN <<>>
  ELSE <<NormalizeFinding(list[idx])>> \o NormalizeFindings_StopAtBad(list, idx + 1)

RECURSIVE NormalizeFindingsFrom(_, _)
NormalizeFindingsFrom(list, idx) ==
  IF idx > Len(list) THEN <<>>
  ELSE (IF FindingOk(list[idx]) THEN <<NormalizeFinding(list[idx])>> ELSE <<>>)
       \o NormalizeFindingsFrom(list, idx + 1)

RECURSIVE NormalizeCrossFrom(_, _)
NormalizeCrossFrom(list, idx) ==
  IF idx > Len(list) THEN <<>>
  ELSE (IF CrossOk(list[idx]) THEN <<NormalizeCrossResponse(list[idx], idx)>> ELSE <<>>)
       \o NormalizeCrossFrom(list, idx + 1)

AiResponses(body) == NormalizeAiFrom(body.aiResponses, 1)
ParticipantFindings(body) == NormalizeFindingsFrom(body.participantFindings, 1)
CrossClipResponses(body) == NormalizeCrossFrom(body.crossClipResponses, 1)

\* variant: the lengths of the submitted lists, not of the validated ones
NothingToStore_RawLengths(body) ==
  /\ Len(body.aiResponses) = 0
  /\ Len(body.participantFindings) = 0
  /\ Len(body.crossClipResponses) = 0

\* if (all three lengths are 0) return respond(400, ...)
NothingToStore(body) ==
  /\ Len(AiResponses(body)) = 0
  /\ Len(ParticipantFindings(body)) = 0
  /\ Len(CrossClipResponses(body)) = 0

ClipItem(body) ==
  [p |-> TrimId(body.participantId), story |-> body.storyId, clip |-> body.clipIndex,
   ai |-> AiResponses(body), findings |-> ParticipantFindings(body),
   cross |-> CrossClipResponses(body), watched |-> body.videoWatched]

SameClipKey(a, b) == a.p = b.p /\ a.story = b.story /\ a.clip = b.clip

\* PutItemCommand (no condition): the item of that key is replaced
PutClip(item) == { c \in clips : ~SameClipKey(c, item) } \cup { item }

ClipAnnotation(r) ==
  LET body == inbox
      rq == NewReq("clipAnnotation", TrimId(body.participantId), "done", 0)
  IN
  /\ inbox # NoBody
  /\ deployed = "current"
  /\ reqs[r].pc = "idle"
  /\ IF TrimId(body.participantId) = Blank
     THEN /\ reqs' = [reqs EXCEPT ![r] =
                        RespondError(rq, 400, "participantId is required")]
          /\ clips' = clips
     ELSE IF body.storyId = ""
     THEN /\ reqs' = [reqs EXCEPT ![r] = RespondError(rq, 400, "storyId is required")]
          /\ clips' = clips
     ELSE IF body.clipIndex < 1
     THEN /\ reqs' = [reqs EXCEPT ![r] =
                        RespondError(rq, 400, "clipIndex must be a positive integer (1-based)")]
          /\ clips' = clips
     ELSE IF NothingToStore(body)
     THEN /\ reqs' = [reqs EXCEPT ![r] =
                        RespondError(rq, 400, "At least one response is required to store clip annotation")]
          /\ clips' = clips
     ELSE /\ clips' = PutClip(ClipItem(body))
          /\ reqs' = [reqs EXCEPT ![r] =
                        [rq EXCEPT !.resp = [NoResp EXCEPT
                             !.status = 200,
                             !.story = body.storyId,
                             !.savedAi = Len(AiResponses(body)),
                             !.savedFindings = Len(ParticipantFindings(body))]]]
  /\ UNCHANGED <<ui, proc, surveys, inbox, deployed, cfg, cap, items, reached>>

\* ------------------------------------------------------------ presign
\* Strings whose prefix matters are sequences of characters.
StoriesDefault == <<"s", "t", "o", "r", "i", "e", "s", "/">>
ParticipantsDefault == <<"p", "a", "r", "t", "i", "c", "i", "p", "a", "n", "t", "s", "/">>

\* String.prototype.startsWith
StartsWith(str, prefix) ==
  Len(str) >= Len(prefix) /\ SubSeq(str, 1, Len(prefix)) = prefix

\* cfg.storiesPrefix || "stories/", cfg.participantsPrefix || "participants/"
StoriesPrefix(c) == IF c.storiesPrefix # <<>> THEN c.storiesPrefix ELSE StoriesDefault
ParticipantsPrefix(c) ==
  IF c.participantsPrefix # <<>> THEN c.participantsPrefix ELSE ParticipantsDefault

\* a JSON value in the key position: t = "undef" (field missing), "str"
\* (the string s), "num" (the number n, truthy when not 0)
Truthy(k) == (k.t = "str" /\ k.s # <<>>) \/ (k.t = "num" /\ k.n # 0)

\* variant: a get is checked against the stories prefix, a put not at all
KeyAllowed_PutUnchecked(c, operation, key) ==
  operation = "put" \/ StartsWith(key, StoriesPrefix(c))

\* "simple safety checks" on the key of a get and of a put
KeyAllowed(c, operation, key) ==
  IF operation = "get"
  THEN StartsWith(key, StoriesPrefix(c)) \/ StartsWith(key, ParticipantsPrefix(c))
  ELSE StartsWith(key, ParticipantsPrefix(c))

\* getSignedUrl(s3, command, { expiresIn: 3600 })
SignedUrl(c, operation, key) == [bucket |-> c.bucketName, op |-> operation, key |-> key]

Presign(r) ==
  LET body == inbox
      rq == NewReq("presign", Blank, "done", 0)
  IN
  /\ inbox # NoBody
  /\ reqs[r].pc = "idle"
  /\ reqs' = [reqs EXCEPT ![r] =
       IF body.operation = "" \/ ~Truthy(body.key)
       THEN RespondError(rq, 400, "operation and key are required")
       ELSE IF body.operation \notin {"get", "put"}
       THEN RespondError(rq, 400, "operation must be 'get' or 'put'")
       ELSE IF body.key.t # "str"
       THEN RespondError(rq, 500, "key.startsWith is not a function")
       ELSE IF ~KeyAllowed(cfg, body.operation, body.key.s)
       THEN RespondError(rq, 403,
              IF body.operation = "get"
              THEN "GET only allowed for stories/ or participants/ keys"
              ELSE "PUT only allowed under participants/ prefix")
       ELSE [rq EXCEPT !.resp = [NoResp EXCEPT !.status = 200,
                                   !.url = SignedUrl(cfg, body.operation, body.key.s)]]]
  /\ UNCHANGED <<ui, proc, surveys, clips, inbox, deployed, cfg, cap, items, reached>>

\* ------------------------------------------------------------ behaviour
Seed(c, m) == [k \in CandKeys(c) |-> [count |-> 0, max |-> m[k]]]

Cfg2x1 == [stories |-> <<"B", "A">>, modes |-> <<"human">>]

Init ==
  /\ deployed \in {"current", "legacy"}
  /\ cfg = Cfg2x1
  /\ \E m \in [CandKeys(Cfg2x1) -> 1..MaxCap] : cap = Seed(Cfg2x1, m)
  /\ items = {}
  /\ surveys = {}
  /\ clips = {}
  /\ inbox = NoBody
  /\ reqs = [r \in Reqs |-> IdleReq]
  /\ reached = {}
  /\ proc = ColdStart(Cfg2x1)
  /\ ui = TaskStart(FALSE, 1)

Next ==
  \/ \E r \in Reqs, p \in Participants \cup {Blank} : AssignStart(r, p)
  \/ \E r \in Reqs : AssignGet(r)
  \/ \E r \in Reqs : AssignRead(r)
  \/ \E r \in Reqs : AssignUpdate(r)
  \/ \E r \in Reqs : AssignPut(r)
  \/ \E r \in Reqs, p \in Participants \cup {Blank} : LegacyStart(r, p)
  \/ \E r \in Reqs : LegacyGet(r)
  \/ \E r \in Reqs : LegacyUpdate(r)
  \/ \E r \in Reqs : LegacyPut(r)

Spec == Init /\ [][Next]_vars

\* One call at a time, each by a participant of its own: the sequential
\* scenarios (four pairs of capacity 1; two pairs of capacity 10).
Cfg2x2 == [stories |-> <<"B", "A">>, modes |-> <<"human", "vlm">>]

InitSeq ==
  /\ deployed \in {"current", "legacy"}
  /\ \/ cfg = Cfg2x2 /\ cap = Seed(Cfg2x2, [k \in CandKeys(Cfg2x2) |-> 1])
     \/ cfg = Cfg2x1 /\ cap = Seed(Cfg2x1, [k \in CandKeys(Cfg2x1) |-> 10])
  /\ items = {}
  /\ surveys = {}
  /\ clips = {}
  /\ inbox = NoBody
  /\ reqs = [r \in SeqReqs |-> IdleReq]
  /\ reached = {}
  /\ proc = ColdStart(Cfg2x1)
  /\ ui = TaskStart(FALSE, 1)

Quiet == \A q \in DOMAIN reqs : reqs[q].pc \in {"idle", "done"}

\* the r-th call is participant r's, issued when nothing is in flight
SeqAssignStart(r) == Quiet /\ AssignStart(r, r)
SeqLegacyStart(r) == Quiet /\ LegacyStart(r, r)

NextSeq ==
  \/ \E r \in SeqReqs : SeqAssignStart(r)
  \/ \E r \in SeqReqs : AssignGet(r)
  \/ \E r \in SeqReqs : AssignRead(r)
  \/ \E r \in SeqReqs : AssignUpdate(r)
  \/ \E r \in SeqReqs : AssignPut(r)
  \/ \E r \in SeqReqs : SeqLegacyStart(r)
  \/ \E r \in SeqReqs : LegacyGet(r)
  \/ \E r \in SeqReqs : LegacyUpdate(r)
  \/ \E r \in SeqReqs : LegacyPut(r)

SpecSeq == InitSeq /\ [][NextSeq]_vars


\* The participant's journey: assignment, surveys, stage updates and
\* completion, interleaved at every store call.
GoodAnswer == [present |-> TRUE, id |-> "q1", score |-> RawVal("num", 4)]
BadAnswer == [present |-> TRUE, id |-> "", score |-> RawVal("num", 8)]
AnswerLists == {<<>>, <<BadAnswer>>, <<GoodAnswer>>, <<BadAnswer, GoodAnswer>>}
StageInputs == (0 - 1)..(MaxStage + 1)

InitProgress ==
  /\ deployed \in {"current", "legacy"}
  /\ cfg = Cfg2x1
  /\ cap = Seed(Cfg2x1, [k \in CandKeys(Cfg2x1) |-> MaxCap])
  /\ items = {}
  /\ surveys = {}
  /\ clips = {}
  /\ inbox = NoBody
  /\ reqs = [r \in ProgressReqs |-> IdleReq]
  /\ reached = {}
  /\ proc = ColdStart(Cfg2x1)
  /\ ui = TaskStart(FALSE, 1)

NextProgress ==
  \/ \E r \in ProgressReqs, p \in Participants \cup {Blank} : AssignStart(r, p)
  \/ \E r \in ProgressReqs : AssignGet(r)
  \/ \E r \in ProgressReqs : AssignRead(r)
  \/ \E r \in ProgressReqs : AssignUpdate(r)
  \/ \E r \in ProgressReqs : AssignPut(r)
  \/ \E r \in ProgressReqs, p \in Participants \cup {Blank} : LegacyStart(r, p)
  \/ \E r \in ProgressReqs : LegacyGet(r)
  \/ \E r \in ProgressReqs : LegacyUpdate(r)
  \/ \E r \in ProgressReqs : LegacyPut(r)
  \/ \E r \in ProgressReqs, p \in Participants \cup {Blank}, a \in AnswerLists : PrestudyStart(r, p, a)
  \/ \E r \in ProgressReqs : PrestudyAdvance(r)
  \/ \E r \in ProgressReqs, p \in Participants \cup {Blank}, a \in AnswerLists : PoststudyStart(r, p, a)
  \/ \E r \in ProgressReqs : PoststudyFinish(r)
  \/ \E r \in ProgressReqs, p \in Participants \cup {Blank}, v \in StageInputs : Stage(r, p, v)
  \/ \E r \in ProgressReqs, p \in Participants \cup {Blank} : MarkFinished(r, p)
  \/ \E r \in ProgressReqs, p \in Participants \cup {Blank} : MarkFinishedLegacy(r, p)

SpecProgress == InitProgress /\ [][NextProgress]_vars


\* One clipAnnotation request, its body drawn from the entries below,
\* handled against a table that is empty or already holds the item of
\* an earlier request for clip 1.
Num(v) == RawVal("num", v)
ScoreInputs == { RawVal("undef", 0), RawVal("null", 0), RawVal("text", 0),
                 RawVal("empty", 0), RawVal("numstr", 4),
                 Num(0 - 8), Num(0 - 6), Num(0), Num(3), Num(6), Num(7) }

GoodFinding == [present |-> TRUE, finding_id |-> "f1", categories |-> <<"face">>,
                threat |-> Num(2), share |-> Num(0 - 4), comfort |-> Num(6),
                description |-> "a face"]

FindingInputs ==
  {GoodFinding, [GoodFinding EXCEPT !.present = FALSE],
   [GoodFinding EXCEPT !.finding_id = ""]}
  \cup { [GoodFinding EXCEPT !.categories = c] : c \in {<<>>, <<" ">>, <<" ", "face">>} }
  \cup { [GoodFinding EXCEPT !.categories = c, !.description = d] :
           c \in {<<"none">>, <<" none ">>, <<"face">>}, d \in {"", " "} }
  \cup { [GoodFinding EXCEPT !.threat = v, !.finding_id = "f2"] : v \in ScoreInputs }
  \cup { [GoodFinding EXCEPT !.share = RawVal("undef", 0)],
         [GoodFinding EXCEPT !.comfort = Num(8)] }

GoodAi == [present |-> TRUE, det_id |-> "d1", threat |-> Num(2), share |-> Num(0),
           comfort |-> Num(0 - 6), trust |-> Num(4)]
BadAi == [GoodAi EXCEPT !.trust = RawVal("undef", 0)]
AiLists == {<<>>, <<GoodAi>>, <<BadAi>>, <<BadAi, GoodAi>>, <<[GoodAi EXCEPT !.det_id = ""]>>}

GoodCross == [present |-> TRUE, threat_id |-> "", threat |-> Num(2), severe |-> Num(0),
              comfort |-> Num(2)]
BadCross == [GoodCross EXCEPT !.severe = Num(8)]
CrossLists == {<<>>, <<BadCross, GoodCross>>, <<BadCross>>}

RECURSIVE ListsUpTo(_, _)
ListsUpTo(S, n) ==
  IF n = 0 THEN {<<>>}
  ELSE ListsUpTo(S, n - 1) \cup
       { Append(l, x) : l \in { m \in ListsUpTo(S, n - 1) : Len(m) = n - 1 }, x \in S }

RequestKeys == { <<1, "A", 1>>, <<1, "A", 2>>, <<Blank, "A", 1>>, <<1, "", 1>>, <<1, "A", 0>> }

Body(key, ai, findings, cross) ==
  [participantId |-> key[1], storyId |-> key[2], clipIndex |-> key[3],
   aiResponses |-> ai, participantFindings |-> findings,
   crossClipResponses |-> cross, videoWatched |-> TRUE]

EarlierBody == [Body(<<1, "A", 1>>, <<GoodAi>>, <<GoodFinding>>, <<>>) EXCEPT !.videoWatched = FALSE]

InitClip ==
  /\ deployed = "current"
  /\ cfg = Cfg2x1
  /\ cap = Seed(Cfg2x1, [k \in CandKeys(Cfg2x1) |-> MaxCap])
  /\ items = {}
  /\ surveys = {}
  /\ clips \in { {}, {ClipItem(EarlierBody)} }
  /\ \E key \in RequestKeys, ai \in AiLists, cross \in CrossLists,
        findings \in ListsUpTo(FindingInputs, MaxListLen) :
       inbox = Body(key, ai, findings, cross)
  /\ reqs = [r \in {1} |-> IdleReq]
  /\ reached = {}
  /\ proc = ColdStart(Cfg2x1)
  /\ ui = TaskStart(FALSE, 1)

NextClip == \E r \in {1} : ClipAnnotation(r)

SpecClip == InitClip /\ [][NextClip]_vars

\* Every handler of the participant's journey, called with a participantId
\* that is missing, white space only, or that of participant 1, and one
\* clipAnnotation body on its way.
ValidateIds == {Blank, Spaces} \cup (1..1)
ValidateBodies ==
  { Body(<<1, "A", 1>>, <<GoodAi>>, <<GoodFinding>>, <<>>),
    Body(<<1, "A", 1>>, <<BadAi>>, <<[GoodFinding EXCEPT !.finding_id = ""]>>, <<BadCross>>),
    Body(<<Spaces, "A", 1>>, <<GoodAi>>, <<GoodFinding>>, <<>>),
    Body(<<Blank, "A", 1>>, <<GoodAi>>, <<GoodFinding>>, <<>>) }

InitValidate ==
  /\ deployed \in {"current", "legacy"}
  /\ cfg = Cfg2x1
  /\ cap = Seed(Cfg2x1, [k \in CandKeys(Cfg2x1) |-> MaxCap])
  /\ items = {}
  /\ surveys = {}
  /\ clips = {}
  /\ inbox \in ValidateBodies
  /\ reqs = [r \in ProgressReqs |-> IdleReq]
  /\ reached = {}
  /\ proc = ColdStart(Cfg2x1)
  /\ ui = TaskStart(FALSE, 1)

NextValidate ==
  \/ \E r \in ProgressReqs, p \in ValidateIds : AssignStart(r, p)
  \/ \E r \in ProgressReqs : AssignGet(r)
  \/ \E r \in ProgressReqs : AssignRead(r)
  \/ \E r \in ProgressReqs : AssignUpdate(r)
  \/ \E r \in ProgressReqs : AssignPut(r)
  \/ \E r \in ProgressReqs, p \in ValidateIds : LegacyStart(r, p)
  \/ \E r \in ProgressReqs : LegacyGet(r)
  \/ \E r \in ProgressReqs : LegacyUpdate(r)
  \/ \E r \in ProgressReqs : LegacyPut(r)
  \/ \E r \in ProgressReqs, p \in ValidateIds, a \in AnswerLists : PrestudyStart(r, p, a)
  \/ \E r \in ProgressReqs : PrestudyAdvance(r)
  \/ \E r \in ProgressReqs, p \in ValidateIds, a \in AnswerLists : PoststudyStart(r, p, a)
  \/ \E r \in ProgressReqs : PoststudyFinish(r)
  \/ \E r \in ProgressReqs, p \in ValidateIds, v \in StageInputs : Stage(r, p, v)
  \/ \E r \in ProgressReqs, p \in ValidateIds : MarkFinished(r, p)
  \/ \E r \in ProgressReqs, p \in ValidateIds : MarkFinishedLegacy(r, p)
  \/ \E r \in ProgressReqs, p \in ValidateIds : Status(r, p)
  \/ \E r \in ProgressReqs : ClipAnnotation(r)

SpecValidate == InitValidate /\ [][NextValidate]_vars

\* Assign calls against a table seeded for any part of the configured
\* (story, mode) pairs, none included, with store calls that can fail.
SeedOn(K, m) == [k \in K |-> [count |-> 0, max |-> m[k]]]

InitStore ==
  /\ deployed \in {"current", "legacy"}
  /\ cfg = Cfg2x1
  /\ \E K \in SUBSET CandKeys(Cfg2x1) : \E m \in [K -> 1..MaxCap] : cap = SeedOn(K, m)
  /\ items = {}
  /\ surveys = {}
  /\ clips = {}
  /\ inbox = NoBody
  /\ reqs = [r \in StoreReqs |-> IdleReq]
  /\ reached = {}
  /\ proc = ColdStart(Cfg2x1)
  /\ ui = TaskStart(FALSE, 1)

NextStore ==
  \/ \E r \in StoreReqs, p \in Participants \cup {Blank} : AssignStart(r, p)
  \/ \E r \in StoreReqs : AssignGet(r)
  \/ \E r \in StoreReqs : AssignRead(r)
  \/ \E r \in StoreReqs : AssignUpdate(r)
  \/ \E r \in StoreReqs : AssignPut(r)
  \/ \E r \in StoreReqs, p \in Participants \cup {Blank} : LegacyStart(r, p)
  \/ \E r \in StoreReqs : LegacyGet(r)
  \/ \E r \in StoreReqs : LegacyUpdate(r)
  \/ \E r \in StoreReqs : LegacyPut(r)
  \/ \E r \in StoreReqs : AssignGetFault(r)
  \/ \E r \in StoreReqs : AssignReadFault(r)
  \/ \E r \in StoreReqs : AssignWriteFault(r)
  \/ \E r \in StoreReqs : LegacyGetFault(r)
  \/ \E r \in StoreReqs : LegacyWriteFault(r)

SpecStore == InitStore /\ [][NextStore]_vars

\* One presign request, its operation and key drawn from the values
\* below, under a study configuration with default or custom prefixes.
MediaPrefix == <<"m", "/">>
UploadPrefix == <<"u", "/">>
StrKey(s) == [t |-> "str", s |-> s, n |-> 0]
KeyInputs ==
  { [t |-> "undef", s |-> <<>>, n |-> 0], [t |-> "num", s |-> <<>>, n |-> 0],
    [t |-> "num", s |-> <<>>, n |-> 5],
    StrKey(<<>>),
    StrKey(StoriesDefault \o <<"a">>), StrKey(ParticipantsDefault \o <<"a">>),
    StrKey(StoriesDefault), StrKey(ParticipantsDefault),
    StrKey(SubSeq(StoriesDefault, 1, 7)), StrKey(SubSeq(ParticipantsDefault, 1, 12)),
    StrKey(SubSeq(StoriesDefault, 1, 7) \o <<"x", "/", "a">>),
    StrKey(<<"/">> \o ParticipantsDefault \o <<"a">>),
    StrKey(<<"S">> \o Tail(StoriesDefault) \o <<"a">>),
    StrKey(MediaPrefix \o <<"a">>), StrKey(UploadPrefix \o <<"a">>),
    StrKey(<<"m">>), StrKey(<<"o", "/", "a">>) }
OperationInputs == {"", "get", "put", "GET", "delete"}
PresignCfgs ==
  { [stories |-> Cfg2x1.stories, modes |-> Cfg2x1.modes, bucketName |-> "bucket",
     storiesPrefix |-> sp, participantsPrefix |-> pp] :
      sp \in {<<>>, MediaPrefix}, pp \in {<<>>, UploadPrefix} }

InitPresign ==
  /\ deployed = "current"
  /\ cfg \in PresignCfgs
  /\ cap = Seed(Cfg2x1, [k \in CandKeys(Cfg2x1) |-> MaxCap])
  /\ items = {}
  /\ surveys = {}
  /\ clips = {}
  /\ \E op \in OperationInputs, key \in KeyInputs : inbox = [operation |-> op, key |-> key]
  /\ reqs = [r \in {1} |-> IdleReq]
  /\ reached = {}
  /\ proc = ColdStart(Cfg2x1)
  /\ ui = TaskStart(FALSE, 1)

NextPresign == \E r \in {1} : Presign(r)

SpecPresign == InitPresign /\ [][NextPresign]_vars

\* status and clipAnnotation requests against a table that holds the
\* annotations of earlier requests (any of the clips of two participants
\* and two stories) and, for participant 1, no participant item, one
\* with an assignment, or one that a stage request created.
StatusReqs == 1..MaxStatusReq
StatusKeys ==
  { <<1, "A", c>> : c \in 1..MaxClipIndex } \cup { <<1, "B", 1>>, <<2, "A", 1>> }
StatusBodies == { Body(key, <<GoodAi>>, <<>>, <<>>) : key \in StatusKeys }
StatusItems ==
  { {}, {[BlankItem(1) EXCEPT !.stage = 1]} }
  \cup { {[sk |-> 1, story |-> st, mode |-> "human", stage |-> 0, finished |-> FALSE]} :
           st \in {"A", "B"} }

InitStatus ==
  /\ deployed = "current"
  /\ cfg = Cfg2x1
  /\ cap = Seed(Cfg2x1, [k \in CandKeys(Cfg2x1) |-> MaxCap])
  /\ items \in StatusItems
  /\ surveys = {}
  /\ clips \in SUBSET { ClipItem(b) : b \in StatusBodies }
  /\ inbox \in StatusBodies
  /\ reqs = [r \in StatusReqs |-> IdleReq]
  /\ reached = {}
  /\ proc = ColdStart(Cfg2x1)
  /\ ui = TaskStart(FALSE, 1)

NextStatus ==
  \/ \E r \in StatusReqs, p \in {Blank} \cup (1..2) : Status(r, p)
  \/ \E r \in StatusReqs : ClipAnnotation(r)

SpecStatus == InitStatus /\ [][NextStatus]_vars

\* One process serving assign calls one at a time (an execution
\* environment is handed one event at a time), while the stored
\* study_config.json is replaced now and then and a GetObject can fail.
ConfigReqs == 1..MaxConfigReq
Cfg1x1 == [stories |-> <<"A">>, modes |-> <<"human">>]
ConfigDocs == {Cfg2x1, Cfg1x1}

\* const cfg = await getStudyConfig(), inside the handler's try: a throw
\* is answered 500 by the outer catch; then the participantId check
ConfigAssignStart(r, p, ok) ==
  LET pr == GetStudyConfig(proc, ok)
      rq == NewReq("assign", TrimId(p), "get", 0)
  IN
  /\ deployed = "current"
  /\ Quiet
  /\ CanStart(r, p)
  /\ proc' = pr
  /\ IF pr.cached.set
     THEN /\ cfg' = pr.cached.doc
          /\ reqs' = [reqs EXCEPT ![r] =
                        IF TrimId(p) = Blank
                        THEN RespondError(rq, 400, "participantId is required")
                        ELSE rq]
     ELSE /\ cfg' = cfg
          /\ reqs' = [reqs EXCEPT ![r] = RespondError(rq, 500, "Internal server error")]
  /\ UNCHANGED <<ui, surveys, clips, inbox, deployed, cap, items, reached>>

ConfigLegacyStart(r, p, ok) ==
  LET pr == GetStudyConfig(proc, ok)
      rq == NewReq("assignLegacy", p, "get", 0)
  IN
  /\ deployed = "legacy"
  /\ Quiet
  /\ CanStart(r, p)
  /\ proc' = pr
  /\ IF pr.cached.set
     THEN /\ cfg' = pr.cached.doc
          /\ reqs' = [reqs EXCEPT ![r] =
                        IF p = Blank
                        THEN RespondError(rq, 400, "participantId is required")
                        ELSE rq]
     ELSE /\ cfg' = cfg
          /\ reqs' = [reqs EXCEPT ![r] = RespondError(rq, 500, "Internal server error")]
  /\ UNCHANGED <<ui, surveys, clips, inbox, deployed, cap, items, reached>>

\* the object under CONFIG_BUCKET / CONFIG_KEY is replaced
ConfigChange(doc) ==
  /\ doc # proc.object
  /\ proc' = [proc EXCEPT !.object = doc]
  /\ UNCHANGED <<ui, surveys, clips, inbox, deployed, cfg, cap, items, reqs, reached>>

InitConfig ==
  /\ deployed \in {"current", "legacy"}
  /\ cfg = Cfg2x1
  /\ cap = Seed(Cfg2x1, [k \in CandKeys(Cfg2x1) |-> MaxCap])
  /\ items = {}
  /\ surveys = {}
  /\ clips = {}
  /\ inbox = NoBody
  /\ reqs = [r \in ConfigReqs |-> IdleReq]
  /\ reached = {}
  /\ \E doc \in ConfigDocs : proc = ColdStart(doc)
  /\ ui = TaskStart(FALSE, 1)

NextConfig ==
  \/ \E r \in ConfigReqs, p \in Participants \cup {Blank}, ok \in BOOLEAN : ConfigAssignStart(r, p, ok)
  \/ \E r \in ConfigReqs : AssignGet(r)
  \/ \E r \in ConfigReqs : AssignRead(r)
  \/ \E r \in ConfigReqs : AssignUpdate(r)
  \/ \E r \in ConfigReqs : AssignPut(r)
  \/ \E r \in ConfigReqs, p \in Participants \cup {Blank}, ok \in BOOLEAN : ConfigLegacyStart(r, p, ok)
  \/ \E r \in ConfigReqs : LegacyGet(r)
  \/ \E r \in ConfigReqs : LegacyUpdate(r)
  \/ \E r \in ConfigReqs : LegacyPut(r)
  \/ \E doc \in ConfigDocs : ConfigChange(doc)

SpecConfig == InitConfig /\ [][NextConfig]_vars

\* One browser session in the task view, in test mode or not, over a
\* story of one to MaxClips clips: clicks on Next and Previous, the end of
\* the video, and the outcome of each clip load, in any order.
InitTask ==
  /\ deployed = "current"
  /\ cfg = Cfg2x1
  /\ cap = Seed(Cfg2x1, [k \in CandKeys(Cfg2x1) |-> MaxCap])
  /\ items = {}
  /\ surveys = {}
  /\ clips = {}
  /\ inbox = NoBody
  /\ reqs = [r \in {1} |-> IdleReq]
  /\ reached = {}
  /\ proc = ColdStart(Cfg2x1)
  /\ \E test \in BOOLEAN, n \in 1..MaxClips : ui = TaskStart(test, n)

NextTask ==
  \/ ClickNext
  \/ ClickPrev
  \/ LoadClipDone
  \/ LoadClipFail
  \/ VideoEnded

SpecTask == InitTask /\ [][NextTask]_vars

\* One prestudy request with a genAiUsage drawn from the values below:
\* short tool lists of every kind of entry, and lists longer than the
\* number of tools kept.
Tool(str) == [str |-> TRUE, s |-> str]
NotString == [str |-> FALSE, s |-> ""]
ToolInputs ==
  { Tool("none"), Tool(" none "), Tool("chatgpt"), Tool("other"), Tool(""), Tool(" "),
    Tool(LongTool), NotString }
ManyTools ==
  <<
     Tool("a01"), Tool("a02"), Tool("a03"), Tool("a04"), Tool("a05"),
     Tool("a06"), Tool("a07"), Tool("a08"), Tool("a09"), Tool("a10"),
     Tool("a11"), Tool("a12"), Tool("a13"), Tool("a14"), Tool("a15"),
     Tool("a16"), Tool("a17"), Tool("a18"), Tool("a19"), Tool("a20"),
     Tool("a21"), Tool("a22"), Tool("a23"), Tool("a24"), Tool("a25"),
     Tool("a26"), Tool("a27"), Tool("a28"), Tool("a29"), Tool("a30")
  >>
ToolLists ==
  ListsUpTo(ToolInputs, MaxListLen)
    \cup { ManyTools, Append(ManyTools, Tool("none")), <<Tool("none")>> \o ManyTools,
           Append(ManyTools, Tool("a31")) }
FrequencyInputs == { Tool("daily"), Tool(""), Tool(" "), NotString }
OtherTextInputs == { Tool("details"), Tool("") }
UsageInputs ==
  { NoUsageField }
    \cup { [object |-> TRUE, tools |-> tl, frequency |-> fr, otherText |-> ot] :
             tl \in ToolLists, fr \in FrequencyInputs, ot \in OtherTextInputs }

InitUsage ==
  /\ deployed = "current"
  /\ cfg = Cfg2x1
  /\ cap = Seed(Cfg2x1, [k \in CandKeys(Cfg2x1) |-> MaxCap])
  /\ items = {}
  /\ surveys = {}
  /\ clips = {}
  /\ \E u \in UsageInputs : inbox = [genAiUsage |-> u]
  /\ reqs = [r \in {1} |-> IdleReq]
  /\ reached = {}
  /\ proc = ColdStart(Cfg2x1)
  /\ ui = TaskStart(FALSE, 1)

NextUsage ==
  \/ \E r \in {1}, p \in {Blank} \cup (1..1), a \in AnswerLists : PrestudySubmit(r, p, a)
  \/ \E r \in {1} : PrestudyAdvance(r)

SpecUsage == InitUsage /\ [][NextUsage]_vars

\* ----------------------------------------------------------- properties
IsAssign(r) == reqs[r].kind \in {"assign", "assignLegacy"}
Fresh(r) == Done(r) /\ reqs[r].resp.status = 200 /\ ~reqs[r].resp.reused
Pair(r) == <<reqs[r].resp.story, reqs[r].resp.mode>>

\* r2 was issued after r1 had answered 200, for the same participant
After(r1, r2) ==
  /\ IsAssign(r1) /\ IsAssign(r2)
  /\ r1 \in reqs[r2].pred
  /\ reqs[r1].p = reqs[r2].p
  /\ reqs[r1].resp.status = 200

\* C1: two assign calls for one participant, the second issued after the
\* first answered 200, return the same (story, mode), and together they
\* write a capacity count at most once.
C1_Idempotent ==
  \A r1, r2 \in DOMAIN reqs :
    (After(r1, r2) /\ Done(r2)) =>
      /\ reqs[r2].resp.status = 200
      /\ Pair(r2) = Pair(r1)
      /\ reqs[r1].writes + reqs[r2].writes <= 1

\* the first call allocated, the second call has answered
C1_Witness ==
  \E r1, r2 \in DOMAIN reqs : After(r1, r2) /\ Done(r2) /\ Fresh(r1) /\ reqs[r1].writes = 1

SumMax == LET RECURSIVE S(_)
              S(K) == IF K = {} THEN 0
                      ELSE LET k == CHOOSE x \in K : TRUE IN cap[k].max + S(K \ {k})
          IN S(DOMAIN cap)

Issued == { r \in DOMAIN reqs : IsAssign(r) }

\* C3: a count is above its maximum only after every capacity item has
\* been at its maximum, and never while at most sum-of-maxima assign calls
\* have been issued.
C3_CapacityRespect ==
  /\ (\E k \in DOMAIN cap : cap[k].count > cap[k].max) => reached = DOMAIN cap
  /\ Cardinality(Issued) <= SumMax => \A k \in DOMAIN cap : cap[k].count <= cap[k].max

\* the overflow happened
C3_Witness == \E k \in DOMAIN cap : cap[k].count > cap[k].max

\* C4: of two assign calls by distinct participants issued while exactly
\* one place was left, exactly one is given that place.
C4_LastSlotRace ==
  \A r1, r2 \in DOMAIN reqs :
    (/\ r1 # r2 /\ IsAssign(r1) /\ IsAssign(r2)
     /\ reqs[r1].p # reqs[r2].p
     /\ reqs[r1].slot # <<>> /\ reqs[r1].slot = reqs[r2].slot
     /\ Fresh(r1) /\ Fresh(r2))
    => ~(Pair(r1) = reqs[r1].slot /\ Pair(r2) = reqs[r2].slot)

\* C5: an assign call whose PutItem found the participant item already
\* there answers 200 with the stored (story, mode).
C5_RaceIsSuccess ==
  \A r \in DOMAIN reqs :
    (IsAssign(r) /\ Done(r) /\ reqs[r].conflict) =>
      /\ reqs[r].resp.status = 200
      /\ HasItem(reqs[r].p)
      /\ Pair(r) = <<GetItem(reqs[r].p).story, GetItem(reqs[r].p).mode>>

\* the scenario of four (story, mode) pairs of capacity 1 each
FourPairs == cfg = Cfg2x2 /\ \A k \in DOMAIN cap : cap[k].max = 1

\* C6: with four pairs of capacity 1, the first four sequential calls are
\* given four distinct pairs and the fifth is answered 200 with a pair
\* (every pair being equally loaded by then), not with an error.
C6_FourThenFifth ==
  FourPairs =>
    /\ \A r \in 1..4 : Done(r) => reqs[r].resp.status = 200 /\ Pair(r) \in DOMAIN cap
    /\ \A r1, r2 \in 1..4 : (Done(r1) /\ Done(r2) /\ r1 # r2) => Pair(r1) # Pair(r2)
    /\ Done(5) => reqs[5].resp.status = 200 /\ Pair(5) \in DOMAIN cap

\* the scenario of two pairs of capacity 10 each
TwoPairs == cfg = Cfg2x1 /\ \A k \in DOMAIN cap : cap[k].max = 10

Diff(a, b) == IF a >= b THEN a - b ELSE b - a

\* C7: with two pairs of capacity 10, the two counts differ by at most 1
\* after each of the first ten sequential calls.
C7_Balance ==
  (TwoPairs /\ Quiet /\ Cardinality(Issued) <= 10) =>
    \A j, k \in DOMAIN cap : Diff(cap[j].count, cap[k].count) <= 1
\* C2: there is one participant item per participant, and an item that
\* holds a story and a mode keeps both.
OneRecord == \A a, b \in items : a.sk = b.sk => a = b

Assigned(it) == it.story # "" /\ it.mode # ""

C2_AssignmentFixed ==
  /\ []OneRecord
  /\ [][\A a \in items : Assigned(a) =>
          \E b \in items' : b.sk = a.sk /\ b.story = a.story /\ b.mode = a.mode]_vars

\* an assigned participant went on to finish
C2_Witness == \E a \in items : Assigned(a) /\ a.stage = FinishedStage /\ a.finished

\* C8: the stored stage of a participant never decreases.
C8_MonotoneStage ==
  [][\A a \in items : \A b \in items' : b.sk = a.sk => b.stage >= a.stage]_vars

\* positions of the entries of a list that validate, and the k-th of them
ValidAt(list, Ok(_)) == { i \in 1..Len(list) : Ok(list[i]) }
KthOf(S, k) == CHOOSE i \in S : Cardinality({ j \in S : j < i }) = k - 1

Handled == reqs[1].kind = "clipAnnotation" /\ Done(1)
Stored == CHOOSE c \in clips :
            c.p = inbox.participantId /\ c.story = inbox.storyId /\ c.clip = inbox.clipIndex

\* C9: the item stored by an accepted clipAnnotation request holds, list
\* by list, the normalized entries that validate, in input order and
\* nothing else, and each saved count answered is the length of the
\* stored list.
C9_PartialBatch ==
  (Handled /\ reqs[1].resp.status = 200) =>
    LET okAi == ValidAt(inbox.aiResponses, AiOk)
        okF == ValidAt(inbox.participantFindings, FindingOk)
        okX == ValidAt(inbox.crossClipResponses, CrossOk)
    IN
    /\ Len(Stored.ai) = Cardinality(okAi)
    /\ \A k \in 1..Len(Stored.ai) :
         Stored.ai[k] = NormalizeAiResponse(inbox.aiResponses[KthOf(okAi, k)])
    /\ Len(Stored.findings) = Cardinality(okF)
    /\ \A k \in 1..Len(Stored.findings) :
         Stored.findings[k] = NormalizeFinding(inbox.participantFindings[KthOf(okF, k)])
    /\ Len(Stored.cross) = Cardinality(okX)
    /\ \A k \in 1..Len(Stored.cross) :
         Stored.cross[k] =
           NormalizeCrossResponse(inbox.crossClipResponses[KthOf(okX, k)], KthOf(okX, k))
    /\ reqs[1].resp.savedAi = Len(Stored.ai)
    /\ reqs[1].resp.savedFindings = Len(Stored.findings)

\* one valid and one invalid finding were submitted and one was saved
C9_Witness ==
  /\ Handled /\ reqs[1].resp.status = 200
  /\ Len(inbox.participantFindings) = 2
  /\ Cardinality(ValidAt(inbox.participantFindings, FindingOk)) = 1
  /\ reqs[1].resp.savedFindings = 1
  /\ Stored.findings = <<NormalizeFinding(GoodFinding)>>

NoValidEntry(body) ==
  /\ ValidAt(body.aiResponses, AiOk) = {}
  /\ ValidAt(body.participantFindings, FindingOk) = {}
  /\ ValidAt(body.crossClipResponses, CrossOk) = {}

\* C10: a clipAnnotation request none of whose entries validates is
\* answered 400 and leaves the clip annotation items as they were.
C10_RejectEmpty ==
  [][(inbox # NoBody /\ NoValidEntry(inbox) /\ reqs[1].pc = "idle" /\ reqs'[1].pc = "done")
       => (reqs'[1].resp.status = 400 /\ clips' = clips)]_vars

\* a request with entries, none valid, for the key of a stored item, was
\* rejected for that reason
C10_Witness ==
  /\ Handled /\ reqs[1].resp.status = 400
  /\ reqs[1].resp.error = "At least one response is required to store clip annotation"
  /\ Len(inbox.participantFindings) > 0 /\ Len(inbox.aiResponses) > 0
  /\ clips = {ClipItem(EarlierBody)}
  /\ inbox.clipIndex = EarlierBody.clipIndex

Presigned == reqs[1].kind = "presign" /\ Done(1)

\* C11: a presign request is answered with a URL only for a put whose key
\* starts with the participants prefix or a get whose key starts with the
\* stories or the participants prefix, the URL being for that operation
\* and key; any other string key of a get or put is answered 403 without
\* a URL.
C11_PresignPrefix ==
  Presigned =>
    LET op == inbox.operation
        key == inbox.key
        inStories == key.t = "str" /\ StartsWith(key.s, StoriesPrefix(cfg))
        inParticipants == key.t = "str" /\ StartsWith(key.s, ParticipantsPrefix(cfg))
        allowed == \/ op = "put" /\ inParticipants
                   \/ op = "get" /\ (inStories \/ inParticipants)
    IN
    /\ reqs[1].resp.url # NoUrl =>
         /\ allowed
         /\ reqs[1].resp.status = 200
         /\ reqs[1].resp.url.op = op /\ reqs[1].resp.url.key = key.s
    /\ (op \in {"get", "put"} /\ key.t = "str" /\ key.s # <<>> /\ ~allowed) =>
         reqs[1].resp.status = 403 /\ reqs[1].resp.url = NoUrl
    /\ reqs[1].resp.status # 200 => reqs[1].resp.url = NoUrl

\* a put of a key under the stories prefix was refused
C11_Witness ==
  /\ Presigned /\ inbox.operation = "put" /\ inbox.key.t = "str"
  /\ StartsWith(inbox.key.s, StoriesPrefix(cfg))
  /\ reqs[1].resp.status = 403
AllFull == "No available tasks for this study"

\* C12: an assign call made while the table holds no story+mode item is
\* answered with an error other than the one given when every pair is
\* full, and writes neither a count nor a participant item.
C12_NoCapacityConfigured ==
  \A r \in DOMAIN reqs :
    (DOMAIN cap = {} /\ IsAssign(r) /\ Done(r) /\ reqs[r].p # Blank) =>
      /\ reqs[r].resp.status >= 400
      /\ reqs[r].resp.error # AllFull
      /\ reqs[r].writes = 0
      /\ items = {}
TriedKeys(r) == { <<reqs[r].tried[i].story, reqs[r].tried[i].mode>> : i \in 1..Len(reqs[r].tried) }

\* C13: the story+mode items on which one assign call attempts its
\* increment are all different, follow the order (count ascending, story,
\* mode), and the call answers "No available tasks" only when it has
\* attempted every configured pair.
C13_BoundedRetry ==
  \A r \in DOMAIN reqs :
    IsAssign(r) =>
      LET t == reqs[r].tried IN
      /\ Cardinality(TriedKeys(r)) = Len(t)
      /\ \A i \in 1..(Len(t) - 1) : Before(t[i], t[i + 1])
      /\ (Done(r) /\ reqs[r].resp.error = AllFull) => TriedKeys(r) = CandKeys(cfg)
\* C14: an assign call one of whose store calls failed with an error
\* other than a failed condition is answered with a 5xx status.
C14_StoreErrorIs5xx ==
  \A r \in DOMAIN reqs :
    (IsAssign(r) /\ Done(r) /\ reqs[r].fault) => reqs[r].resp.status >= 500
Validated == {"assign", "prestudy", "poststudy", "stage", "status", "clipAnnotation"}

\* C15: a request answered 400 is answered on its first step and leaves
\* participant items, capacity items, survey items and clip items as they
\* were; an assign, prestudy, poststudy, stage, status or clipAnnotation
\* request without a participantId (missing, empty or, after the trim,
\* blank) is answered 400, and so is a prestudy or poststudy request
\* without a valid answer.
C15_RejectedWritesNothing ==
  [][\A r \in DOMAIN reqs :
       /\ (reqs[r].pc # "done" /\ reqs'[r].pc = "done" /\ reqs'[r].resp.status = 400) =>
            /\ reqs[r].pc = "idle"
            /\ items' = items /\ cap' = cap /\ surveys' = surveys /\ clips' = clips
       /\ (reqs[r].pc = "idle" /\ reqs'[r].kind \in Validated /\ reqs'[r].p = Blank) =>
            reqs'[r].pc = "done" /\ reqs'[r].resp.status = 400
       /\ (reqs[r].pc = "idle" /\ reqs'[r].kind \in {"prestudy", "poststudy"}
             /\ reqs'[r].resp.status # 400) =>
            /\ reqs'[r].arg >= 1
            /\ \E sv \in surveys' : sv.p = reqs'[r].p /\ sv.kind = reqs'[r].kind
                                     /\ Len(sv.answers) = reqs'[r].arg
  ]_vars

\* a prestudy request without a valid answer was rejected for a
\* participant whose prestudy item is stored
C15_Witness ==
  \E r \in DOMAIN reqs :
    /\ reqs[r].kind = "prestudy" /\ Done(r)
    /\ reqs[r].resp.status = 400 /\ reqs[r].resp.error = "No valid answers provided"
    /\ \E sv \in surveys : sv.p = reqs[r].p /\ sv.kind = "prestudy"
\* C16: no step lowers the count of a story+mode item, and every write of
\* one by an assign call leaves its count above the count stored before.
C16_CountOnlyIncreases ==
  [][/\ \A k \in DOMAIN cap : cap'[k].count >= cap[k].count
     /\ \A r \in DOMAIN reqs :
          reqs'[r].writes > reqs[r].writes =>
            \E k \in DOMAIN cap : cap'[k].count > cap[k].count]_vars
\* C17: every participant item holds a story and a mode, so none was
\* created by a prestudy, stage, poststudy or mark-finished request.
C17_RecordOnlyByAllocation == \A it \in items : Assigned(it)

\* C18: a survey item or a clip annotation item, once stored, stays as it
\* was stored.
C18_WriteOnce ==
  [][/\ \A sv \in surveys : sv \in surveys'
     /\ \A c \in clips : c \in clips']_vars
\* C19: an assign call that finds a participant item with story and mode
\* answers 200 with that story and mode and reused = true, having written
\* no capacity item and leaving the participant items as they are; a call
\* answers reused = false only on the step that creates the participant
\* item it reports.
C19_FastPath ==
  [][\A r \in DOMAIN reqs :
       /\ (/\ IsAssign(r) /\ reqs[r].pc = "get" /\ reqs'[r].pc # "get"
            /\ HasItem(reqs[r].p) /\ WellFormed(GetItem(reqs[r].p))) =>
             /\ reqs'[r].pc = "done"
             /\ reqs'[r].resp.status = 200 /\ reqs'[r].resp.reused
             /\ reqs'[r].resp.story = GetItem(reqs[r].p).story
             /\ reqs'[r].resp.mode = GetItem(reqs[r].p).mode
             /\ reqs'[r].writes = 0
             /\ cap' = cap /\ items' = items
       /\ (/\ IsAssign(r) /\ reqs[r].pc # "done" /\ reqs'[r].pc = "done"
            /\ reqs'[r].resp.status = 200 /\ ~reqs'[r].resp.reused) =>
             /\ ~HasItem(reqs[r].p)
             /\ \E it \in items' :
                  /\ it.sk = reqs[r].p /\ items' = items \cup {it}
                  /\ it.story = reqs'[r].resp.story /\ it.mode = reqs'[r].resp.mode
  ]_vars

\* an assigned participant called assign again and was given the stored
\* assignment
C19_Witness ==
  \E r \in DOMAIN reqs :
    /\ reqs[r].kind = "assign" /\ Done(r) /\ reqs[r].resp.reused
    /\ reqs[r].resp.status = 200 /\ reqs[r].writes = 0
    /\ HasItem(reqs[r].p) /\ Pair(r) = <<GetItem(reqs[r].p).story, GetItem(reqs[r].p).mode>>
\* the order of the claim: count ascending, then story, then mode
Earlier(a, b) ==
  \/ a.count < b.count
  \/ a.count = b.count /\ Rank(a.story) < Rank(b.story)
  \/ a.count = b.count /\ a.story = b.story /\ Rank(a.mode) < Rank(b.mode)

Range(seq) == { seq[i] : i \in 1..Len(seq) }

\* the records below their maximum, or all of them when there is none
Pool(recs) ==
  LET open == { rec \in Range(recs) : rec.count < rec.max }
  IN  IF open # {} THEN open ELSE Range(recs)

\* C20: the story+mode pair whose count an assign call writes is the
\* first, by count, then story, then mode, of the records it read that
\* are below their maximum, or of all the records it read when none is.
C20_LeastLoadedChoice ==
  [][\A r \in DOMAIN reqs :
       (reqs[r].kind = "assign" /\ reqs[r].pc = "update" /\ reqs'[r].pc = "put") =>
         \E m \in Pool(reqs[r].recs) :
           /\ \A x \in Pool(reqs[r].recs) \ {m} : Earlier(m, x)
           /\ reqs'[r].chosen = <<m.story, m.mode>>
           /\ cap'[<<m.story, m.mode>>].count = m.count + 1]_vars

\* a call read every record at its maximum and wrote the first of them
C20_Witness ==
  \E r \in DOMAIN reqs :
    /\ reqs[r].kind = "assign" /\ reqs[r].pc = "put"
    /\ Len(reqs[r].tried) = 1
    /\ reqs[r].tried[1].count >= reqs[r].tried[1].max
    /\ reqs[r].chosen = <<"A", "human">>
\* the participant items that name the story+mode pair k
Naming(k) == { it \in items : it.story = k[1] /\ it.mode = k[2] }

\* C21: the count of every story+mode item, seeded at 0, is at least the
\* number of participant items that name the pair: an increment may stay
\* without its participant item, but no participant item is without its
\* increment.
C21_NoLostIncrement ==
  \A k \in DOMAIN cap : cap[k].count >= Cardinality(Naming(k))
\* C22: one assign call writes the count of at most one story+mode item,
\* and its write leaves that count exactly 1 above the stored count and
\* every other count as it was, whether or not the PutItem that follows
\* succeeds.
C22_OneCapacityWrite ==
  [][\A r \in DOMAIN reqs :
       /\ reqs'[r].writes <= 1
       /\ reqs'[r].writes > reqs[r].writes =>
            \E k \in DOMAIN cap :
              /\ cap'[k].count = cap[k].count + 1
              /\ \A j \in DOMAIN cap \ {k} : cap'[j] = cap[j]]_vars
\* C23: an assign call that found the participant item without a story or
\* without a mode answers 200 with a story and a mode, and the participant
\* item then holds both.
C23_MalformedReallocates ==
  \A r \in DOMAIN reqs :
    (reqs[r].kind = "assign" /\ reqs[r].malformed /\ Done(r)) =>
      /\ reqs[r].resp.status = 200
      /\ reqs[r].resp.story # "" /\ reqs[r].resp.mode # ""
      /\ HasItem(reqs[r].p) /\ WellFormed(GetItem(reqs[r].p))
\* C24: under the poststudy, stage and mark-finished handlers that write
\* the stage, a participant item whose finished flag is set has stage 3.
C24_FinishedIsStage3 ==
  deployed = "current" => \A it \in items : it.finished => it.stage = FinishedStage
\* C25: the stage in the 200 answer of a prestudy request is the stage the
\* participant item holds when the request answers.
C25_PrestudyStageIsStored ==
  [][\A r \in DOMAIN reqs :
       (/\ reqs[r].kind = "prestudy" /\ reqs[r].pc = "stage"
        /\ reqs'[r].pc = "done" /\ reqs'[r].resp.status = 200) =>
         \E it \in items' : it.sk = reqs[r].p /\ it.stage = reqs'[r].resp.stage]_vars
\* the clip indexes with a stored annotation of participant p for story st
SavedFor(p, st) == { c.clip : c \in { d \in clips : d.p = p /\ d.story = st } }

IntegerLikert(raw) ==
  /\ raw.t \in {"num", "numstr"}
  /\ raw.v % 2 = 0
  /\ raw.v >= 2 * LikertMin /\ raw.v <= 2 * LikertMax

\* C27: every entry stored by an accepted clipAnnotation request is the
\* normalized form of a submitted entry all of whose required scores are
\* integers within -3..3; an entry with a missing, null, non-numeric,
\* fractional or out-of-range score is not stored.
C27_IntegerLikert ==
  (Handled /\ reqs[1].resp.status = 200) =>
    /\ \A k \in 1..Len(Stored.ai) :
         \E i \in 1..Len(inbox.aiResponses) :
           LET raw == inbox.aiResponses[i] IN
           /\ raw.present /\ Stored.ai[k] = NormalizeAiResponse(raw)
           /\ IntegerLikert(raw.threat) /\ IntegerLikert(raw.share)
           /\ IntegerLikert(raw.comfort) /\ IntegerLikert(raw.trust)
    /\ \A k \in 1..Len(Stored.findings) :
         \E i \in 1..Len(inbox.participantFindings) :
           LET raw == inbox.participantFindings[i] IN
           /\ raw.present /\ Stored.findings[k] = NormalizeFinding(raw)
           /\ IntegerLikert(raw.threat) /\ IntegerLikert(raw.share)
           /\ IntegerLikert(raw.comfort)
    /\ \A k \in 1..Len(Stored.cross) :
         \E i \in 1..Len(inbox.crossClipResponses) :
           LET raw == inbox.crossClipResponses[i] IN
           /\ raw.present /\ Stored.cross[k] = NormalizeCrossResponse(raw, i)
           /\ IntegerLikert(raw.threat) /\ IntegerLikert(raw.severe)
           /\ IntegerLikert(raw.comfort)
\* C28: once cachedConfig is set, no step sends a GetObject or changes
\* cachedConfig, and an invocation works with the cached document whatever
\* is stored; while it is not set, an invocation sends one GetObject,
\* and either the load fails, the invocation is answered 500 and nothing
\* is cached, or the stored document is cached and used.
C28_ConfigCache ==
  [][/\ proc.cached.set => (proc'.cached = proc.cached /\ proc'.fetches = proc.fetches)
     /\ \A r \in DOMAIN reqs :
          (reqs[r].pc = "idle" /\ reqs'[r].pc # "idle") =>
            IF proc.cached.set
            THEN cfg' = proc.cached.doc /\ reqs'[r].resp.status # 500
            ELSE /\ proc'.fetches = proc.fetches + 1
                 /\ \/ reqs'[r].resp.status = 500 /\ ~proc'.cached.set
                    \/ /\ reqs'[r].resp.status # 500
                       /\ proc'.cached = [set |-> TRUE, doc |-> proc.object]
                       /\ cfg' = proc.object
  ]_vars

\* a load failed, the next one succeeded, and a later invocation was
\* served from cachedConfig while another document was stored
C28_Witness ==
  /\ proc.cached.set
  /\ proc.fetches >= 2
  /\ proc.stale >= 1
  /\ proc.object # proc.cached.doc
  /\ cfg = proc.cached.doc
\* C29: outside test mode the current clip index goes up only by one, and
\* only from a clip that is marked completed.
C29_NextAfterCompleted ==
  [][(~ui.test /\ ui'.index > ui.index) =>
       (ui'.index = ui.index + 1 /\ ui.index \in ui.completion)]_vars

\* outside test mode the last clip was reached after a refused Next click
C29_Witness ==
  /\ ~ui.test
  /\ ui.alerted
  /\ ui.index = ui.clips - 1
  /\ ui.index >= 2
  /\ \A i \in 0..(ui.index - 1) : i \in ui.completion
\* the tools of a submitted genAiUsage that are strings, after the trim,
\* not empty and not longer than 80 characters
ValidTools(raw) ==
  { Trim(raw.tools[i].s) :
      i \in { j \in 1..Len(raw.tools) :
                /\ raw.tools[j].str
                /\ Trim(raw.tools[j].s) # ""
                /\ Trim(raw.tools[j].s) # LongTool } }

HasFrequency(raw) == raw.frequency.str /\ Trim(raw.frequency.s) # ""

\* C30: the stored prestudy item holds a genai_usage exactly when the
\* submitted usage has a valid tool and a frequency; if its tools contain
\* "none" the stored tools are <<"none">> and used_any is false; otherwise
\* used_any is true and the stored tools are the valid submitted tools,
\* each once.
C30_NoneExclusive ==
  \A sv \in surveys :
    sv.kind = "prestudy" =>
      LET raw == inbox.genAiUsage
          g == sv.genai
      IN  /\ g.stored <=> (raw.object /\ ValidTools(raw) # {} /\ HasFrequency(raw))
          /\ (g.stored /\ "none" \in ValidTools(raw)) =>
               (g.tools = <<"none">> /\ ~g.used_any)
          /\ (g.stored /\ "none" \notin ValidTools(raw)) =>
               /\ g.used_any
               /\ Range(g.tools) = ValidTools(raw)
               /\ Cardinality(Range(g.tools)) = Len(g.tools)
====
